---- MODULE Spec2Model ----
(***************************************************************************)
(* Model of the LiveTicket lottery simulator:                              *)
(*   src/src/lottery/lottery_stage.py      (LotteryStage)                  *)
(*   src/src/lottery/lottery_simulator.py  (LotterySimulator)              *)
(*                                                                         *)
(* One LotterySimulator object is modelled.  Its constructor arguments are *)
(* drawn in Init; Construct runs __init__, AddStage runs add_stage and     *)
(* Calculate runs calculate_probabilities (with the seat allocation it     *)
(* calls).  A second specification, SpecBatch, models the loop of main in  *)
(* src/src/__main__.py, which runs one fresh simulator per configured     *)
(* case.                                                                   *)
(*                                                                         *)
(* Python floats are modelled as exact rationals <<n, d>> (d > 0, lowest   *)
(* terms); round() is Python 3's round-half-to-even.  Floating-point       *)
(* representation error is not modelled.                                   *)
(*                                                                         *)
(* The inputs explored are within the ranges of the data model: attendance *)
(* and population are never negative.  The arguments __init__ and          *)
(* add_stage reject are explored as well.                                  *)
(***************************************************************************)
EXTENDS Integers, Sequences, FiniteSets, TLC

VARIABLES
    pc,                          \* "new" | "ready" | "failed" : life of the object
                                 \* ("main" while main's loop runs)
    last_op,                     \* the method that ran last
    raised,                      \* TRUE iff that method raised ValueError
    total_overall_attendance,
    num_total_events,
    user_target_events_details,
    core_fan_total_population,
    duplicate_config,            \* duplicate_当選_config
    stages,
    total_weight,
    seats_per_event,
    user_total_target_events,
    total_seats_for_user_events,
    results_per_stage_raw,       \* list of references into stages (indices)
    final_probabilities,         \* insertion-ordered dict: sequence of <<key, value>>
    stages_definition_list,      \* main: (name, ratio, additional, weight) tuples
    simulation_cases_config,     \* main: [case_name, duplicate_config] records
    case_index,                  \* main: cases the for loop has been through
    all_results_for_plotting,
    all_case_names_for_plotting

vars == <<pc, last_op, raised, total_overall_attendance, num_total_events,
          user_target_events_details, core_fan_total_population,
          duplicate_config, stages, total_weight, seats_per_event,
          user_total_target_events, total_seats_for_user_events,
          results_per_stage_raw, final_probabilities,
          stages_definition_list, simulation_cases_config, case_index,
          all_results_for_plotting, all_case_names_for_plotting>>

\* the locals of main
batch == <<stages_definition_list, simulation_cases_config, case_index,
           all_results_for_plotting, all_case_names_for_plotting>>

\* arguments of __init__; fixed once drawn
ctor_args == <<total_overall_attendance, num_total_events,
               user_target_events_details, core_fan_total_population,
               duplicate_config>>

\* attributes __init__ derives
derived == <<seats_per_event, user_total_target_events,
             total_seats_for_user_events>>

-----------------------------------------------------------------------------
(* Bounds *)

\* add_stage is explored up to this many stages
MaxStages == 3

-----------------------------------------------------------------------------
(* Exact rational arithmetic standing in for Python floats *)

Abs(i) == IF i < 0 THEN -i ELSE i

RECURSIVE Gcd(_, _)
Gcd(a, b) == IF b = 0 THEN a ELSE Gcd(b, a % b)

\* the rational n/d in lowest terms with a positive denominator (d # 0)
Rat(n, d) ==
    LET g == Gcd(Abs(n), Abs(d))
        s == IF d < 0 THEN -1 ELSE 1
    IN  <<(s * n) \div g, (s * d) \div g>>

Num(x) == x[1]
Den(x) == x[2]
FromInt(i) == <<i, 1>>
Zero == <<0, 1>>
One == <<1, 1>>

RMul(x, y) ==
    LET g1 == Gcd(Abs(Num(x)), Den(y))
        g2 == Gcd(Abs(Num(y)), Den(x))
    IN  Rat((Num(x) \div g1) * (Num(y) \div g2),
            (Den(x) \div g2) * (Den(y) \div g1))

RAdd(x, y) ==
    LET g == Gcd(Den(x), Den(y))
    IN  Rat(Num(x) * (Den(y) \div g) + Num(y) * (Den(x) \div g),
            (Den(x) \div g) * Den(y))

RNeg(x) == <<-Num(x), Den(x)>>
RSub(x, y) == RAdd(x, RNeg(y))
RLeq(x, y) == Num(RSub(x, y)) <= 0
RLt(x, y) == Num(RSub(x, y)) < 0

\* Python 3 round(x): nearest integer, ties to the even one
Round(x) ==
    LET q == Num(x) \div Den(x)
        r == Num(x) % Den(x)
    IN  IF 2 * r < Den(x) THEN q
        ELSE IF 2 * r > Den(x) THEN q + 1
        ELSE IF q % 2 = 0 THEN q ELSE q + 1

Max(a, b) == IF a >= b THEN a ELSE b
Min(a, b) == IF a <= b THEN a ELSE b

-----------------------------------------------------------------------------
(* Python dict helpers *)

EmptyDict == <<>>

\* d.get(k, default)
Get(d, k, default) == IF k \in DOMAIN d THEN d[k] ELSE default

\* sum(d.values()) for a dict label -> int
RECURSIVE SumOver(_, _)
SumOver(d, keys) ==
    IF keys = {} THEN 0
    ELSE LET k == CHOOSE x \in keys : TRUE
         IN  d[k] + SumOver(d, keys \ {k})

SumValues(d) == SumOver(d, DOMAIN d)

\* an attribute __init__ has not assigned yet
Unset == "unset"

-----------------------------------------------------------------------------
(* Inputs *)

\* (total_overall_attendance, num_total_events, user_target_events_details,
\*  core_fan_total_population) given to __init__; the last three are rejected
ConstructorInputs ==
    { <<4, 3, [tokyo |-> 1], 3>>,
      <<5, 2, [tokyo |-> 1], 3>>,
      <<0, 2, [tokyo |-> 2, osaka |-> 1], 0>>,
      <<10000, 10, [test |-> 1], 1000>>,
      <<4, 0, [tokyo |-> 1], 3>>,
      <<4, 3, EmptyDict, 3>>,
      <<4, 3, [tokyo |-> 1, osaka |-> -1], 3>> }

\* duplicate_当選_config values; __init__ validates none of them
DuplicateConfigs ==
    { EmptyDict,
      [type |-> "seat_reduction"],
      [type |-> "seat_reduction", rate |-> <<1, 5>>],
      [type |-> "seat_reduction", rate |-> <<1, 1>>],
      [type |-> "seat_reduction", rate |-> <<3, 2>>],
      [type |-> "probability_boost", rate |-> <<3, 2>>] }

\* stage names, in the order in which fresh ones are handed out
StageNames == <<"S1", "S2", "S3", "S4", "S5">>

\* (applicant_core_fan_ratio, additional_applicants, weight) given to
\* add_stage; the last three are rejected
StageInputs ==
    { <<<<1, 2>>, 0, 1>>,
      <<<<1, 1>>, 0, 1>>,
      <<<<1, 1>>, 1, 2>>,
      <<<<3, 2>>, 0, 1>>,
      <<<<1, 2>>, -1, 1>>,
      <<<<1, 2>>, 0, 0>> }

-----------------------------------------------------------------------------
(* LotteryStage *)

\* LotteryStage.__init__
LotteryStage(name, applicant_core_fan_ratio, additional_applicants, weight) ==
    [ name |-> name,
      applicant_core_fan_ratio |-> applicant_core_fan_ratio,
      additional_applicants |-> additional_applicants,
      weight |-> weight,
      allocated_seats_original |-> 0,
      effective_seats_for_new_winners |-> 0,
      premise_applicants_for_stage_type |-> 0,
      actual_applicants_for_stage |-> 0,
      winners_in_stage |-> 0,
      conditional_win_prob_in_stage |-> Zero ]

-----------------------------------------------------------------------------
(* LotterySimulator *)

Init ==
    /\ pc = "new"
    /\ last_op = "none"
    /\ raised = FALSE
    /\ \E a \in ConstructorInputs :
          /\ total_overall_attendance = a[1]
          /\ num_total_events = a[2]
          /\ user_target_events_details = a[3]
          /\ core_fan_total_population = a[4]
    /\ duplicate_config \in DuplicateConfigs
    /\ stages = Unset
    /\ total_weight = Unset
    /\ seats_per_event = Unset
    /\ user_total_target_events = Unset
    /\ total_seats_for_user_events = Unset
    /\ results_per_stage_raw = Unset
    /\ final_probabilities = Unset
    /\ stages_definition_list = Unset
    /\ simulation_cases_config = Unset
    /\ case_index = Unset
    /\ all_results_for_plotting = Unset
    /\ all_case_names_for_plotting = Unset

\* line 61: the target event counts __init__ rejects, by their sum
TargetEventsRejected_OnlyNegative(total) == total < 0

TargetEventsRejected(total) == total <= 0

\* LotterySimulator.__init__ (the arguments are already bound, lines 48-54)
Construct ==
    /\ pc = "new"
    /\ last_op' = "__init__"
    /\ stages' = <<>>
    /\ total_weight' = 0
    /\ UNCHANGED <<ctor_args, batch>>
    /\ IF num_total_events <= 0
       THEN /\ raised' = TRUE
            /\ pc' = "failed"
            /\ UNCHANGED <<derived, results_per_stage_raw, final_probabilities>>
       ELSE /\ seats_per_event' = Rat(total_overall_attendance, num_total_events)
            /\ user_total_target_events' = SumValues(user_target_events_details)
            /\ IF TargetEventsRejected(user_total_target_events')
               THEN /\ raised' = TRUE
                    /\ pc' = "failed"
                    /\ UNCHANGED <<total_seats_for_user_events,
                                   results_per_stage_raw, final_probabilities>>
               ELSE /\ raised' = FALSE
                    /\ pc' = "ready"
                    /\ total_seats_for_user_events' =
                           RMul(seats_per_event', FromInt(user_total_target_events'))
                    /\ results_per_stage_raw' = <<>>
                    /\ final_probabilities' = <<>>

\* lines 89-100: the arguments add_stage rejects
InvalidStageArgs_ZeroWeightAllowed(applicant_core_fan_ratio, additional_applicants, weight) ==
    \/ ~(RLeq(Zero, applicant_core_fan_ratio)
         /\ RLeq(applicant_core_fan_ratio, One))
    \/ additional_applicants < 0
    \/ weight < 0

InvalidStageArgs(applicant_core_fan_ratio, additional_applicants, weight) ==
    \/ ~(RLeq(Zero, applicant_core_fan_ratio)
         /\ RLeq(applicant_core_fan_ratio, One))
    \/ additional_applicants < 0
    \/ weight <= 0

\* line 105: total_weight once the stage is appended
TotalWeightAfter_Overwritten(tw, weight) == weight

TotalWeightAfter(tw, weight) == tw + weight

\* LotterySimulator.add_stage
add_stage(name, applicant_core_fan_ratio, additional_applicants, weight) ==
    /\ pc = "ready"
    /\ last_op' = "add_stage"
    /\ IF InvalidStageArgs(applicant_core_fan_ratio, additional_applicants,
                           weight)
       THEN /\ raised' = TRUE
            /\ UNCHANGED <<stages, total_weight>>
       ELSE /\ raised' = FALSE
            /\ stages' = Append(stages,
                   LotteryStage(name, applicant_core_fan_ratio,
                                additional_applicants, weight))
            /\ total_weight' = TotalWeightAfter(total_weight, weight)
    /\ UNCHANGED <<pc, ctor_args, derived, results_per_stage_raw,
                   final_probabilities, batch>>

\* names matter only through which stages share one: a call passes a name
\* already in use or the first unused name of StageNames
UsedNames == {stages[i].name : i \in 1..Len(stages)}

NameChoices ==
    LET unused == {i \in 1..Len(StageNames) : StageNames[i] \notin UsedNames}
    IN  UsedNames \cup
        {StageNames[i] : i \in {j \in unused : \A k \in unused : j <= k}}

\* the exact fractions of one more stage stay within TLC's 32-bit integers:
\* their denominators divide a product of one applicant count per stage
RECURSIVE PowerAtMost(_, _, _)
PowerAtMost(base, n, limit) ==
    IF n = 0 THEN limit >= 1
    ELSE PowerAtMost(base, n - 1, limit \div base)

FitsIntegers ==
    PowerAtMost(core_fan_total_population + 2, Len(stages) + 1, 2 ^ 30)

AddStage ==
    /\ pc = "ready"
    /\ Len(stages) < MaxStages
    /\ FitsIntegers
    /\ \E name \in NameChoices, a \in StageInputs :
          add_stage(name, a[1], a[2], a[3])

\* insertion-ordered dict assignment d[k] = v
DictSet(d, k, v) ==
    IF \E i \in 1..Len(d) : d[i][1] = k
    THEN [i \in 1..Len(d) |-> IF d[i][1] = k THEN <<k, v>> ELSE d[i]]
    ELSE Append(d, <<k, v>>)

\* f"{stage.name}で当選"
WinKey_NameDropped(name) == "win"

WinKey(name) == name \o ":win"

\* "全選考で落選"
NoWinKey == "all:lose"

\* line 117: stages are present and their weights sum to zero
ZeroWeightWithStages(stgs, tw) == tw = 0 /\ stgs # <<>>

\* lines 125-128: the share of a stage that is not the last one
ProportionalSeats_Inverted(total_seats, weight, tw) ==
    Round(RMul(total_seats, Rat(tw, weight)))

ProportionalSeats(total_seats, weight, tw) ==
    Round(RMul(total_seats, Rat(weight, tw)))

\* the allocation loop of _allocate_seats_to_stages (lines 122-132), from
\* stage i on
RECURSIVE AllocateLoop(_, _, _, _, _)
AllocateLoop(stgs, i, running_allocated_sum, total_seats, tw) ==
    IF i > Len(stgs) THEN stgs
    ELSE LET seats ==
                 IF i < Len(stgs)
                 THEN ProportionalSeats(total_seats, stgs[i].weight, tw)
                 ELSE Round(RSub(total_seats, FromInt(running_allocated_sum)))
         IN  AllocateLoop([stgs EXCEPT ![i].allocated_seats_original = seats],
                          i + 1, running_allocated_sum + seats, total_seats, tw)

\* lines 134-136: the rate the duplicate-win configuration asks for
ReductionRate(cfg) ==
    IF Get(cfg, "type", "None") = "seat_reduction"
    THEN Get(cfg, "rate", Zero)
    ELSE Zero

\* line 137: the reduction rates the allocation rejects
RateOutOfRange_OnlyNegative(reduction_rate) == RLt(reduction_rate, Zero)

RateOutOfRange(reduction_rate) ==
    ~(RLeq(Zero, reduction_rate) /\ RLeq(reduction_rate, One))

\* lines 139-142
EffectiveSeats_NoReduction(allocated, reduction_rate) == allocated

EffectiveSeats(allocated, reduction_rate) ==
    Round(RMul(FromInt(allocated), RSub(One, reduction_rate)))

\* LotterySimulator._allocate_seats_to_stages: the stages as it leaves them
\* and whether it raised ValueError
allocate_seats_to_stages_WeightCleared(stgs, tw, total_seats, cfg) ==
    IF tw = 0 /\ stgs # <<>> THEN [stages |-> stgs, raised |-> TRUE]
    ELSE IF stgs = <<>> THEN [stages |-> stgs, raised |-> FALSE]
    ELSE LET allocated == AllocateLoop(stgs, 1, 0, total_seats, tw)
             reduction_rate == ReductionRate(cfg)
         IN  IF RateOutOfRange(reduction_rate)
             THEN [stages |-> allocated, raised |-> TRUE]
             ELSE [stages |->
                      [i \in 1..Len(allocated) |->
                          [allocated[i] EXCEPT
                              !.weight = 0,
                              !.effective_seats_for_new_winners =
                                  EffectiveSeats(
                                      allocated[i].allocated_seats_original,
                                      reduction_rate)]],
                   raised |-> FALSE]

allocate_seats_to_stages(stgs, tw, total_seats, cfg) ==
    IF ZeroWeightWithStages(stgs, tw) THEN [stages |-> stgs, raised |-> TRUE]
    ELSE IF stgs = <<>> THEN [stages |-> stgs, raised |-> FALSE]
    ELSE LET allocated == AllocateLoop(stgs, 1, 0, total_seats, tw)
             reduction_rate == ReductionRate(cfg)
         IN  IF RateOutOfRange(reduction_rate)
             THEN [stages |-> allocated, raised |-> TRUE]
             ELSE [stages |->
                      [i \in 1..Len(allocated) |->
                          [allocated[i] EXCEPT
                              !.effective_seats_for_new_winners =
                                  EffectiveSeats(
                                      allocated[i].allocated_seats_original,
                                      reduction_rate)]],
                   raised |-> FALSE]

\* lines 171-173: earlier winners do not apply again
ActualApplicants_NoCarry(premise, cumulative_new_winners) == Max(0, premise)

ActualApplicants(premise, cumulative_new_winners) ==
    Max(0, premise - cumulative_new_winners)

\* the body of the stage loop of calculate_probabilities (lines 165-188):
\* the stage with its applicants, winners and conditional probability set
StageStep_StaleWinners(stage, population, cumulative_new_winners) ==
    LET potential_core_fan_applicants ==
            Round(RMul(FromInt(population), stage.applicant_core_fan_ratio))
        premise == potential_core_fan_applicants + stage.additional_applicants
        actual == ActualApplicants(premise, cumulative_new_winners)
        s1 == [stage EXCEPT !.premise_applicants_for_stage_type = premise,
                            !.actual_applicants_for_stage = actual]
    IN  IF actual = 0 \/ stage.effective_seats_for_new_winners = 0
        THEN [s1 EXCEPT !.conditional_win_prob_in_stage = Zero]
        ELSE LET winners == Min(actual, stage.effective_seats_for_new_winners)
             IN  [s1 EXCEPT !.winners_in_stage = winners,
                            !.conditional_win_prob_in_stage = Rat(winners, actual)]

StageStep(stage, population, cumulative_new_winners) ==
    LET potential_core_fan_applicants ==
            Round(RMul(FromInt(population), stage.applicant_core_fan_ratio))
        premise == potential_core_fan_applicants + stage.additional_applicants
        actual == ActualApplicants(premise, cumulative_new_winners)
        s1 == [stage EXCEPT !.premise_applicants_for_stage_type = premise,
                            !.actual_applicants_for_stage = actual]
    IN  IF actual = 0 \/ stage.effective_seats_for_new_winners = 0
        THEN [s1 EXCEPT !.conditional_win_prob_in_stage = Zero,
                        !.winners_in_stage = 0]
        ELSE LET winners == Min(actual, stage.effective_seats_for_new_winners)
             IN  [s1 EXCEPT !.winners_in_stage = winners,
                            !.conditional_win_prob_in_stage = Rat(winners, actual)]

\* lines 190-192
ProbWinFirstTime_NoReach(prob_of_reaching_stage_unwon, conditional) ==
    conditional

ProbWinFirstTime(prob_of_reaching_stage_unwon, conditional) ==
    RMul(prob_of_reaching_stage_unwon, conditional)

\* line 196
ReachUnwonAfter_NoComplement(prob_of_reaching_stage_unwon, conditional) ==
    RMul(prob_of_reaching_stage_unwon, conditional)

ReachUnwonAfter(prob_of_reaching_stage_unwon, conditional) ==
    RMul(prob_of_reaching_stage_unwon, RSub(One, conditional))

\* lines 154-156: the distribution of a simulator without stages
NoStagesResult_Empty == <<>>

NoStagesResult == <<<<NoWinKey, One>>>>

\* the stage loop of calculate_probabilities (lines 164-199), from stage i on
RECURSIVE CascadeLoop(_, _, _, _, _, _)
CascadeLoop(stgs, i, population, cumulative_new_winners, prob_of_reaching_stage_unwon, probs) ==
    IF i > Len(stgs)
    THEN [stages |-> stgs,
          final_probabilities |->
              DictSet(probs, NoWinKey, prob_of_reaching_stage_unwon)]
    ELSE LET stage == StageStep(stgs[i], population, cumulative_new_winners)
             prob_win_first_time_at_this_stage ==
                 ProbWinFirstTime(prob_of_reaching_stage_unwon,
                                  stage.conditional_win_prob_in_stage)
         IN  CascadeLoop([stgs EXCEPT ![i] = stage], i + 1, population,
                 cumulative_new_winners + stage.winners_in_stage,
                 ReachUnwonAfter(prob_of_reaching_stage_unwon,
                                 stage.conditional_win_prob_in_stage),
                 DictSet(probs, WinKey(stage.name),
                         prob_win_first_time_at_this_stage))

\* LotterySimulator.calculate_probabilities
calculate_probabilities_RollsBack ==
    /\ pc = "ready"
    /\ last_op' = "calculate_probabilities"
    /\ UNCHANGED <<pc, ctor_args, derived, total_weight, batch>>
    /\ IF stages = <<>>
       THEN /\ final_probabilities' = NoStagesResult
            /\ raised' = FALSE
            /\ UNCHANGED <<stages, results_per_stage_raw>>
       ELSE LET a == allocate_seats_to_stages(stages, total_weight,
                         total_seats_for_user_events, duplicate_config)
            IN  IF a.raised
                THEN /\ raised' = TRUE
                     /\ UNCHANGED <<stages, results_per_stage_raw,
                                    final_probabilities>>
                ELSE LET c == CascadeLoop(a.stages, 1, core_fan_total_population,
                                          0, One, <<>>)
                     IN  /\ raised' = FALSE
                         /\ stages' = c.stages
                         /\ results_per_stage_raw' = [i \in 1..Len(stages) |-> i]
                         /\ final_probabilities' = c.final_probabilities

calculate_probabilities ==
    /\ pc = "ready"
    /\ last_op' = "calculate_probabilities"
    /\ UNCHANGED <<pc, ctor_args, derived, total_weight, batch>>
    /\ IF stages = <<>>
       THEN /\ final_probabilities' = NoStagesResult
            /\ raised' = FALSE
            /\ UNCHANGED <<stages, results_per_stage_raw>>
       ELSE LET a == allocate_seats_to_stages(stages, total_weight,
                         total_seats_for_user_events, duplicate_config)
            IN  IF a.raised
                THEN /\ raised' = TRUE
                     /\ stages' = a.stages
                     /\ UNCHANGED <<results_per_stage_raw, final_probabilities>>
                ELSE LET c == CascadeLoop(a.stages, 1, core_fan_total_population,
                                          0, One, <<>>)
                     IN  /\ raised' = FALSE
                         /\ stages' = c.stages
                         /\ results_per_stage_raw' = [i \in 1..Len(stages) |-> i]
                         /\ final_probabilities' = c.final_probabilities

Next ==
    \/ Construct
    \/ AddStage
    \/ calculate_probabilities

Spec == Init /\ [][Next]_vars

-----------------------------------------------------------------------------
(* main of src/src/__main__.py: one fresh simulator per configured case *)

\* the cases of a configuration are explored up to this many
MaxCases == 3

\* Python's None
None == "None"

\* "lottery_stages_definition" of the configuration, as the tuples of lines
\* 90-98; the last list holds a stage add_stage rejects
StageDefinitionLists ==
    { <<>>,
      << <<"S1", <<1, 2>>, 0, 1>> >>,
      << <<"S1", <<1, 2>>, 0, 1>>, <<"S2", <<1, 1>>, 0, 1>> >>,
      << <<"S1", <<1, 1>>, 1, 2>>, <<"S1", <<1, 2>>, 0, 1>> >>,
      << <<"S1", <<1, 2>>, 0, 1>>, <<"S2", <<1, 2>>, 0, 0>> >> }

\* duplicate_config of a case
CaseDuplicateConfigs ==
    { EmptyDict,
      [type |-> "seat_reduction", rate |-> <<1, 5>>],
      [type |-> "seat_reduction", rate |-> <<3, 2>>] }

CaseName(i) == "case" \o ToString(i)

\* "simulation_cases_to_run" of the configuration
CaseLists ==
    { [i \in 1..Len(f) |-> [case_name |-> CaseName(i), duplicate_config |-> f[i]]] :
        f \in UNION {[1..n -> CaseDuplicateConfigs] : n \in 0..MaxCases} }

\* main has loaded the configuration and is about to enter its loop
\* (lines 58-109)
InitBatch ==
    /\ pc = "main"
    /\ last_op = "none"
    /\ raised = FALSE
    /\ \E a \in ConstructorInputs :
          /\ total_overall_attendance = a[1]
          /\ num_total_events = a[2]
          /\ user_target_events_details = a[3]
          /\ core_fan_total_population = a[4]
    /\ duplicate_config = Unset
    /\ stages = Unset
    /\ total_weight = Unset
    /\ seats_per_event = Unset
    /\ user_total_target_events = Unset
    /\ total_seats_for_user_events = Unset
    /\ results_per_stage_raw = Unset
    /\ final_probabilities = Unset
    /\ stages_definition_list \in StageDefinitionLists
    /\ simulation_cases_config \in CaseLists
    /\ case_index = 0
    /\ all_results_for_plotting = <<>>
    /\ all_case_names_for_plotting = <<>>

\* lines 42-43: add_stage for every stage definition from the i-th on, until
\* one raises
RECURSIVE AddStages(_, _, _, _)
AddStages(stgs, tw, stages_def, i) ==
    IF i > Len(stages_def)
    THEN [stages |-> stgs, total_weight |-> tw, raised |-> FALSE]
    ELSE LET stage_args == stages_def[i]
         IN  IF InvalidStageArgs(stage_args[2], stage_args[3], stage_args[4])
             THEN [stages |-> stgs, total_weight |-> tw, raised |-> TRUE]
             ELSE AddStages(
                      Append(stgs, LotteryStage(stage_args[1], stage_args[2],
                                                stage_args[3], stage_args[4])),
                      TotalWeightAfter(tw, stage_args[4]), stages_def, i + 1)

\* run_and_collect_results: the final_probabilities of a simulator built for
\* the case, or None when __init__, add_stage or calculate_probabilities
\* raises
run_and_collect_results(simulation_settings, target_events_details, case_duplicate_config, case_name, stages_def) ==
    IF simulation_settings.num_total_events <= 0 THEN None
    ELSE LET per_event == Rat(simulation_settings.total_overall_attendance,
                              simulation_settings.num_total_events)
             total_target == SumValues(target_events_details)
         IN  IF TargetEventsRejected(total_target) THEN None
             ELSE LET added == AddStages(<<>>, 0, stages_def, 1)
                  IN  IF added.raised THEN None
                      ELSE IF added.stages = <<>> THEN NoStagesResult
                      ELSE LET a == allocate_seats_to_stages(
                                        added.stages, added.total_weight,
                                        RMul(per_event, FromInt(total_target)),
                                        case_duplicate_config)
                           IN  IF a.raised THEN None
                               ELSE CascadeLoop(a.stages, 1,
                                        simulation_settings.core_fan_total_population,
                                        0, One, <<>>).final_probabilities

\* line 124: "if results:" holds of a dict that is not empty
Truthy_EvenNone(results) == TRUE

Truthy(results) == results # None /\ results # <<>>

\* config["simulation_settings"]
SimulationSettings ==
    [total_overall_attendance |-> total_overall_attendance,
     num_total_events |-> num_total_events,
     core_fan_total_population |-> core_fan_total_population]

\* one iteration of the for loop of main (lines 111-126)
MainLoopStep ==
    /\ pc = "main"
    /\ case_index < Len(simulation_cases_config)
    /\ LET case_config == simulation_cases_config[case_index + 1]
           results == run_and_collect_results(SimulationSettings,
                          user_target_events_details,
                          case_config.duplicate_config, case_config.case_name,
                          stages_definition_list)
       IN  IF Truthy(results)
           THEN /\ all_results_for_plotting' =
                       Append(all_results_for_plotting, results)
                /\ all_case_names_for_plotting' =
                       Append(all_case_names_for_plotting, case_config.case_name)
           ELSE UNCHANGED <<all_results_for_plotting,
                            all_case_names_for_plotting>>
    /\ case_index' = case_index + 1
    /\ UNCHANGED <<pc, last_op, raised, ctor_args, stages, total_weight,
                   derived, results_per_stage_raw, final_probabilities,
                   stages_definition_list, simulation_cases_config>>

NextBatch == MainLoopStep

SpecBatch == InitBatch /\ [][NextBatch]_vars

-----------------------------------------------------------------------------
(* Notions the properties share *)

\* calculate_probabilities has just returned (without raising)
Returned ==
    /\ pc = "ready"
    /\ last_op = "calculate_probabilities"
    /\ ~raised

StageIndexes == 1..Len(stages)

DistinctNames ==
    \A i, j \in StageIndexes : i # j => stages[i].name # stages[j].name

\* d[k] for a key the dict holds
DictGet(d, k) == d[CHOOSE i \in 1..Len(d) : d[i][1] = k][2]

\* sum(d.values()) for a dict of probabilities
RECURSIVE SumProbabilities(_, _)
SumProbabilities(d, n) ==
    IF n = 0 THEN Zero ELSE RAdd(SumProbabilities(d, n - 1), d[n][2])

RECURSIVE SumAllocated(_, _)
SumAllocated(stgs, n) ==
    IF n = 0 THEN 0
    ELSE SumAllocated(stgs, n - 1) + stgs[n].allocated_seats_original

RECURSIVE SumWinners(_, _)
SumWinners(stgs, n) ==
    IF n = 0 THEN 0 ELSE SumWinners(stgs, n - 1) + stgs[n].winners_in_stage

InUnitInterval(x) == RLeq(Zero, x) /\ RLeq(x, One)

-----------------------------------------------------------------------------
(* C1 *)

\* C1 as stated: whatever the constructor and add_stage accepted, the values
\* of final_probabilities sum to 1 once calculate_probabilities has returned.
C1_SumIsOneForEveryAcceptedInput ==
    Returned =>
        SumProbabilities(final_probabilities, Len(final_probabilities)) = One

\* C1 amended: when the stage names are pairwise distinct and the total
\* attendance is not negative, the values of final_probabilities sum to 1
\* once calculate_probabilities has returned.
C1_SumIsOneForDistinctNames ==
    (Returned /\ DistinctNames /\ total_overall_attendance >= 0) =>
        SumProbabilities(final_probabilities, Len(final_probabilities)) = One

\* three distinctly named stages, at least two of them with a win probability
\* strictly between 0 and 1
C1_Witness ==
    /\ Returned
    /\ DistinctNames
    /\ Len(stages) = 3
    /\ \E i, j \in 1..Len(final_probabilities) :
          /\ i # j
          /\ RLt(Zero, final_probabilities[i][2])
          /\ RLt(final_probabilities[i][2], One)
          /\ RLt(Zero, final_probabilities[j][2])
          /\ RLt(final_probabilities[j][2], One)

-----------------------------------------------------------------------------
(* C2 *)

\* C2: once calculate_probabilities has returned, every value of
\* final_probabilities (each stage's win probability and the no-win
\* probability) lies in [0, 1].  Stated for pairwise distinct stage names,
\* where every stage keeps its own entry.
C2_ProbabilitiesInUnitInterval ==
    (Returned /\ DistinctNames) =>
        \A i \in 1..Len(final_probabilities) :
            InUnitInterval(final_probabilities[i][2])

-----------------------------------------------------------------------------
(* C3 *)

\* C3: once calculate_probabilities has returned on a simulator with at least
\* one stage, every stage but the last holds
\* round(total_seats * weight / total_weight), the last holds the rounded
\* remainder, and the allocated seats sum to round(total_seats_for_user_events).
\* Stated for pairwise distinct stage names.
C3_AllocatedSumIsRoundedTotal ==
    (Returned /\ DistinctNames /\ Len(stages) >= 1) =>
        /\ \A i \in StageIndexes :
              stages[i].allocated_seats_original =
                  IF i < Len(stages)
                  THEN Round(RMul(total_seats_for_user_events,
                                  Rat(stages[i].weight, total_weight)))
                  ELSE Round(RSub(total_seats_for_user_events,
                                  FromInt(SumAllocated(stages, i - 1))))
        /\ SumAllocated(stages, Len(stages)) = Round(total_seats_for_user_events)

-----------------------------------------------------------------------------
(* C4 *)

\* C4: once calculate_probabilities has returned, every stage has
\* allocated_seats_original >= 0 and
\* 0 <= effective_seats_for_new_winners <= allocated_seats_original.
\* Stated for pairwise distinct stage names.
C4_SeatsNonNegativeAndOrdered ==
    (Returned /\ DistinctNames) =>
        \A i \in StageIndexes :
            /\ stages[i].allocated_seats_original >= 0
            /\ stages[i].effective_seats_for_new_winners >= 0
            /\ stages[i].effective_seats_for_new_winners
                   <= stages[i].allocated_seats_original

-----------------------------------------------------------------------------
(* C5 *)

\* C5: once calculate_probabilities has returned, every stage has
\* 0 <= winners <= min(effective seats, actual applicants), premise and actual
\* applicants >= 0, and a conditional win probability in [0, 1] that is 0 when
\* actual applicants or effective seats are 0 and winners / actual applicants
\* otherwise.  Stated for pairwise distinct stage names.
C5_WinnersAndConditionalBounded ==
    (Returned /\ DistinctNames) =>
        \A i \in StageIndexes :
            LET st == stages[i] IN
            /\ st.winners_in_stage >= 0
            /\ st.winners_in_stage <= Min(st.effective_seats_for_new_winners,
                                          st.actual_applicants_for_stage)
            /\ st.premise_applicants_for_stage_type >= 0
            /\ st.actual_applicants_for_stage >= 0
            /\ InUnitInterval(st.conditional_win_prob_in_stage)
            /\ st.conditional_win_prob_in_stage =
                   IF \/ st.actual_applicants_for_stage = 0
                      \/ st.effective_seats_for_new_winners = 0
                   THEN Zero
                   ELSE Rat(st.winners_in_stage, st.actual_applicants_for_stage)

-----------------------------------------------------------------------------
(* C6 *)

\* C6: once calculate_probabilities has returned, every stage k, in insertion
\* order, has premise applicants round(population * ratio_k) + additional_k
\* and actual applicants max(0, premise_k - winners of the stages before k).
C6_CarryForward ==
    Returned =>
        \A k \in StageIndexes :
            LET st == stages[k] IN
            /\ st.premise_applicants_for_stage_type =
                   Round(RMul(FromInt(core_fan_total_population),
                              st.applicant_core_fan_ratio))
                   + st.additional_applicants
            /\ st.actual_applicants_for_stage =
                   Max(0, st.premise_applicants_for_stage_type
                          - SumWinners(stages, k - 1))

\* a later stage whose pool earlier winners have shrunk without emptying it
C6_Witness ==
    /\ Returned
    /\ \E k \in StageIndexes :
          /\ k >= 3
          /\ SumWinners(stages, k - 1) >= 2
          /\ stages[k].actual_applicants_for_stage > 0
          /\ stages[k].actual_applicants_for_stage
                 < stages[k].premise_applicants_for_stage_type
          /\ stages[k].additional_applicants > 0

-----------------------------------------------------------------------------
(* C7 *)

\* the probability of reaching stage k without a win: the product of
\* (1 - conditional_win_prob_j) over the stages j < k
RECURSIVE ReachBefore(_, _)
ReachBefore(stgs, k) ==
    IF k = 1 THEN One
    ELSE RMul(ReachBefore(stgs, k - 1),
              RSub(One, stgs[k - 1].conditional_win_prob_in_stage))

FirstWinProbability(stgs, k) ==
    RMul(stgs[k].conditional_win_prob_in_stage, ReachBefore(stgs, k))

\* no later stage bears the name of stage k
LastWithName(k) ==
    \A j \in StageIndexes : j > k => stages[j].name # stages[k].name

\* once a stage has conditional win probability 1, every later stage and the
\* no-win outcome have probability 0
NothingAfterCertainWin ==
    \A k \in StageIndexes :
        stages[k].conditional_win_prob_in_stage = One =>
            /\ \A j \in StageIndexes :
                  j > k => DictGet(final_probabilities,
                                   WinKey(stages[j].name)) = Zero
            /\ DictGet(final_probabilities, NoWinKey) = Zero

\* scenario A of the specification, calculated
ScenarioA ==
    /\ Returned
    /\ total_overall_attendance = 10000
    /\ num_total_events = 10
    /\ user_target_events_details = [test |-> 1]
    /\ core_fan_total_population = 1000
    /\ duplicate_config = EmptyDict
    /\ Len(stages) = 2
    /\ stages[1].name = "S1"
    /\ stages[1].applicant_core_fan_ratio = <<1, 2>>
    /\ stages[1].additional_applicants = 0
    /\ stages[1].weight = 1
    /\ stages[2].name = "S2"
    /\ stages[2].applicant_core_fan_ratio = One
    /\ stages[2].additional_applicants = 0
    /\ stages[2].weight = 1

\* C7 as stated: once calculate_probabilities has returned, the probability
\* recorded for every stage k is conditional_win_prob_k times the product of
\* (1 - conditional_win_prob_j) over j < k, the no-win probability is the
\* product over all stages, and after a stage with conditional probability 1
\* everything later is 0.
C7_FirstWinCompositionEveryStage ==
    (Returned /\ Len(stages) >= 1) =>
        /\ \A k \in StageIndexes :
              DictGet(final_probabilities, WinKey(stages[k].name)) =
                  FirstWinProbability(stages, k)
        /\ DictGet(final_probabilities, NoWinKey) =
               ReachBefore(stages, Len(stages) + 1)
        /\ NothingAfterCertainWin

\* C7 amended: the same, for every stage k that is the last one bearing its
\* name (every stage, when the names are pairwise distinct); scenario A gives
\* S1 = 1, S2 = 0, no-win = 0.
C7_FirstWinComposition ==
    /\ (Returned /\ Len(stages) >= 1) =>
          /\ \A k \in StageIndexes :
                LastWithName(k) =>
                    DictGet(final_probabilities, WinKey(stages[k].name)) =
                        FirstWinProbability(stages, k)
          /\ DictGet(final_probabilities, NoWinKey) =
                 ReachBefore(stages, Len(stages) + 1)
          /\ NothingAfterCertainWin
    /\ ScenarioA =>
          final_probabilities =
              << <<WinKey("S1"), One>>, <<WinKey("S2"), Zero>>,
                 <<NoWinKey, Zero>> >>

\* scenario A has been calculated: S1 is won with conditional probability 1
\* and S2, though its own conditional probability is 1, is never reached
C7_Witness ==
    /\ ScenarioA
    /\ stages[1].conditional_win_prob_in_stage = One
    /\ stages[2].conditional_win_prob_in_stage = One

-----------------------------------------------------------------------------
(* C8 *)

\* C8: calculate_probabilities on a simulator without stages raises nothing
\* and leaves exactly the one-entry distribution {no-win: 1}, whatever the
\* duplicate-win configuration is.
C8_NoStagesAllLose ==
    (pc = "ready" /\ last_op = "calculate_probabilities" /\ stages = <<>>) =>
        /\ ~raised
        /\ final_probabilities = << <<NoWinKey, One>> >>

\* calculated without stages under a seat reduction whose rate is out of range
C8_Witness ==
    /\ pc = "ready"
    /\ last_op = "calculate_probabilities"
    /\ stages = <<>>
    /\ duplicate_config = [type |-> "seat_reduction", rate |-> <<3, 2>>]

-----------------------------------------------------------------------------
(* C9 *)

\* C9: once calculate_probabilities has returned, every stage has
\* effective seats round(allocated * (1 - rate)) under a seat_reduction
\* configuration (rate 0 when it gives none), and effective seats equal to the
\* allocated seats when the configuration is empty or of another type.
C9_DuplicateWinReduction ==
    Returned =>
        \A i \in StageIndexes :
            stages[i].effective_seats_for_new_winners =
                IF "type" \in DOMAIN duplicate_config
                   /\ duplicate_config["type"] = "seat_reduction"
                THEN IF "rate" \in DOMAIN duplicate_config
                     THEN Round(RMul(FromInt(stages[i].allocated_seats_original),
                                     RSub(One, duplicate_config["rate"])))
                     ELSE stages[i].allocated_seats_original
                ELSE stages[i].allocated_seats_original

\* a seat reduction of 1/5 that takes seats away from a stage
C9_Witness ==
    /\ Returned
    /\ duplicate_config = [type |-> "seat_reduction", rate |-> <<1, 5>>]
    /\ \E i \in StageIndexes :
          /\ stages[i].effective_seats_for_new_winners > 0
          /\ stages[i].effective_seats_for_new_winners
                 < stages[i].allocated_seats_original

-----------------------------------------------------------------------------
(* C10 *)

\* the weights a stage's weight is raised to
RaisedWeights == {2, 3, 5}

\* allocated_seats_original of stage i when its weight is w and everything
\* else is as in the current simulator
AllocatedWithWeight(i, w) ==
    AllocateLoop([stages EXCEPT ![i].weight = w], 1, 0,
                 total_seats_for_user_events,
                 total_weight - stages[i].weight + w)[i].allocated_seats_original

-----------------------------------------------------------------------------
(* C11 *)

AllStageNames == {StageNames[i] : i \in 1..Len(StageNames)}

\* the four configuration fields of every stage, in order
ConfigOf(st) ==
    <<st.name, st.applicant_core_fan_ratio, st.additional_applicants, st.weight>>

Configs(stgs) == [i \in 1..Len(stgs) |-> ConfigOf(stgs[i])]

\* the arguments the documentation of add_stage calls invalid: a ratio outside
\* [0, 1], a negative number of additional applicants, a weight <= 0
DocumentedInvalid(a) ==
    \/ RLt(a[1], Zero)
    \/ RLt(One, a[1])
    \/ a[2] < 0
    \/ a[3] <= 0

DocumentedInvalidInputs == {a \in StageInputs : DocumentedInvalid(a)}

\* C11: a call of add_stage with a core-fan ratio outside [0, 1], a negative
\* additional-applicant count or a weight <= 0 raises ValueError and leaves
\* the stage sequence and total_weight as they were.
C11_AddStageRejects ==
    [][(pc = "ready" /\ last_op' = "add_stage") =>
          \/ raised' /\ stages' = stages /\ total_weight' = total_weight
          \/ \A a \in DocumentedInvalidInputs, name \in AllStageNames :
                ~add_stage(name, a[1], a[2], a[3])]_vars

\* add_stage has just been rejected on a simulator that holds stages
C11_Witness ==
    /\ pc = "ready"
    /\ last_op = "add_stage"
    /\ raised
    /\ Len(stages) >= 2
    /\ total_weight >= 2

-----------------------------------------------------------------------------
(* C12 *)

RECURSIVE SumWeights(_, _)
SumWeights(stgs, n) ==
    IF n = 0 THEN 0 ELSE SumWeights(stgs, n - 1) + stgs[n].weight

\* what one step does to the stage sequence: an add_stage that does not
\* raise was called with valid arguments and appends them, every other step
\* keeps the configurations as they are
AppendOnlyStep ==
    pc = "ready" =>
        IF last_op' = "add_stage" /\ ~raised'
        THEN LET last == ConfigOf(stages'[Len(stages')])
             IN  /\ Configs(stages') = Append(Configs(stages), last)
                 /\ \E name \in AllStageNames, a \in StageInputs :
                       /\ last = <<name, a[1], a[2], a[3]>>
                       /\ ~DocumentedInvalid(a)
                       /\ add_stage(name, a[1], a[2], a[3])
        ELSE Configs(stages') = Configs(stages)

\* C12: whatever add_stage calls were accepted and rejected, the stage
\* sequence is the accepted stages in call order (a step appends the accepted
\* stage or leaves the sequence alone) and total_weight is the sum of the
\* weights of the stages.
C12_AppendOnlyAndWeightSum ==
    /\ [](pc = "ready" => total_weight = SumWeights(stages, Len(stages)))
    /\ [][AppendOnlyStep]_vars

\* two stages of different weights, after a rejected call
C12_Witness ==
    /\ pc = "ready"
    /\ last_op = "add_stage"
    /\ raised
    /\ Len(stages) = 2
    /\ stages[1].weight # stages[2].weight
    /\ total_weight = 3

-----------------------------------------------------------------------------
(* C13 *)

\* C13: __init__ raises ValueError exactly when num_total_events <= 0 or the
\* target event counts sum to <= 0 (an empty mapping included); nothing else
\* is validated, so zero attendance, zero population and any duplicate-win
\* configuration are accepted.
C13_ConstructorValidation ==
    pc # "new" =>
        /\ (pc = "failed") <=>
               (\/ num_total_events <= 0
                \/ SumValues(user_target_events_details) <= 0)
        /\ pc = "failed" => (raised /\ last_op = "__init__")
        /\ pc = "ready" => (last_op = "__init__" => ~raised)

\* an empty mapping of target events has been rejected
C13_Witness ==
    /\ pc = "failed"
    /\ raised
    /\ num_total_events > 0
    /\ user_target_events_details = EmptyDict

-----------------------------------------------------------------------------
(* C14 *)

\* C14: with a seat_reduction configuration whose rate is outside [0, 1],
\* calculate_probabilities on a simulator with at least one stage raises
\* ValueError.
C14_RateOutOfRangeRaises ==
    (/\ pc = "ready"
     /\ last_op = "calculate_probabilities"
     /\ Len(stages) >= 1
     /\ "type" \in DOMAIN duplicate_config
     /\ duplicate_config["type"] = "seat_reduction"
     /\ "rate" \in DOMAIN duplicate_config
     /\ \/ RLt(duplicate_config["rate"], Zero)
        \/ RLt(One, duplicate_config["rate"]))
    => raised

\* calculate_probabilities has raised on two stages under the rate 3/2
C14_Witness ==
    /\ pc = "ready"
    /\ last_op = "calculate_probabilities"
    /\ raised
    /\ Len(stages) = 2
    /\ duplicate_config = [type |-> "seat_reduction", rate |-> <<3, 2>>]

-----------------------------------------------------------------------------
(* C15 *)

\* the keys of an insertion-ordered dict, in order
Keys(d) == [i \in 1..Len(d) |-> d[i][1]]

\* one win key per stage, in insertion order, then the no-win key
ExpectedKeys ==
    [i \in 1..(Len(stages) + 1) |->
        IF i <= Len(stages) THEN stages[i].name \o ":win" ELSE "all:lose"]

\* C15 as stated: once calculate_probabilities has returned on n >= 1 stages,
\* final_probabilities has exactly n + 1 entries: one win key per stage, in
\* insertion order, followed by the no-win key.
C15_OneEntryPerStageAlways ==
    (Returned /\ Len(stages) >= 1) =>
        /\ Len(final_probabilities) = Len(stages) + 1
        /\ Keys(final_probabilities) = ExpectedKeys

\* C15 amended: the same, when the stage names are pairwise distinct.
C15_OneEntryPerStage ==
    (Returned /\ Len(stages) >= 1 /\ DistinctNames) =>
        /\ Len(final_probabilities) = Len(stages) + 1
        /\ Keys(final_probabilities) = ExpectedKeys

\* three distinctly named stages have been calculated
C15_Witness ==
    /\ Returned
    /\ DistinctNames
    /\ Len(stages) = 3
    /\ Len(final_probabilities) = 4

-----------------------------------------------------------------------------
(* C16 *)

\* scenario B of the specification, calculated
ScenarioB ==
    /\ Returned
    /\ total_overall_attendance = 10000
    /\ num_total_events = 10
    /\ user_target_events_details = [test |-> 1]
    /\ core_fan_total_population = 1000
    /\ duplicate_config = [type |-> "seat_reduction", rate |-> <<1, 5>>]
    /\ Configs(stages) = << <<"S1", <<1, 2>>, 0, 1>>, <<"S2", <<1, 1>>, 0, 1>> >>

\* C16: scenario B yields effective seats 400 for both stages, S1 with 500
\* actual applicants and 400 winners, S2 with 600 actual applicants and 400
\* winners, and the distribution S1 = 4/5, S2 = 2/15, no-win = 1/15.
C16_ScenarioB ==
    ScenarioB =>
        /\ stages[1].effective_seats_for_new_winners = 400
        /\ stages[2].effective_seats_for_new_winners = 400
        /\ stages[1].actual_applicants_for_stage = 500
        /\ stages[1].winners_in_stage = 400
        /\ stages[2].actual_applicants_for_stage = 600
        /\ stages[2].winners_in_stage = 400
        /\ final_probabilities =
               << <<"S1:win", <<4, 5>>>>, <<"S2:win", <<2, 15>>>>,
                  <<"all:lose", <<1, 15>>>> >>

\* scenario B has been calculated from 500 seats allocated to each stage
C16_Witness ==
    /\ ScenarioB
    /\ stages[1].allocated_seats_original = 500
    /\ stages[2].allocated_seats_original = 500
    /\ stages[2].premise_applicants_for_stage_type = 1000

-----------------------------------------------------------------------------
(* C17 *)

\* what makes the simulator of the i-th case raise: the conditions under
\* which __init__, add_stage and calculate_probabilities are documented to
\* raise ValueError
CaseRaises(i) ==
    LET cfg == simulation_cases_config[i].duplicate_config
    IN  \/ num_total_events <= 0
        \/ SumValues(user_target_events_details) <= 0
        \/ \E k \in 1..Len(stages_definition_list) :
              DocumentedInvalid(<<stages_definition_list[k][2],
                                  stages_definition_list[k][3],
                                  stages_definition_list[k][4]>>)
        \/ /\ Len(stages_definition_list) >= 1
           /\ Get(cfg, "type", "None") = "seat_reduction"
           /\ \/ RLt(Get(cfg, "rate", Zero), Zero)
              \/ RLt(One, Get(cfg, "rate", Zero))

\* the result of a fresh simulator for the i-th case
FreshResult(i) ==
    run_and_collect_results(SimulationSettings, user_target_events_details,
        simulation_cases_config[i].duplicate_config,
        simulation_cases_config[i].case_name, stages_definition_list)

\* the indexes of the first n cases that do not raise, in order
RECURSIVE SuccessfulUpTo(_)
SuccessfulUpTo(n) ==
    IF n = 0 THEN <<>>
    ELSE IF CaseRaises(n) THEN SuccessfulUpTo(n - 1)
    ELSE Append(SuccessfulUpTo(n - 1), n)

CollectedSoFar ==
    LET ok == SuccessfulUpTo(case_index)
    IN  /\ \A i \in 1..case_index : CaseRaises(i) <=> (FreshResult(i) = None)
        /\ all_case_names_for_plotting =
               [k \in 1..Len(ok) |-> simulation_cases_config[ok[k]].case_name]
        /\ all_results_for_plotting = [k \in 1..Len(ok) |-> FreshResult(ok[k])]

\* C17: main goes through the cases in list order, each with a simulator of
\* its own; a case whose construction, add_stage or calculate raises yields
\* None for that case only, the next case is evaluated all the same, and the
\* result list and the case-name list hold exactly the successful cases so
\* far, in order and aligned.
C17_BatchPolicy ==
    /\ [](pc = "main" => CollectedSoFar)
    /\ [][case_index' = case_index + 1
          /\ case_index' <= Len(simulation_cases_config)
          /\ simulation_cases_config' = simulation_cases_config
          /\ stages_definition_list' = stages_definition_list]_vars

\* three cases done: the second raised on its rate, the first and the third
\* were collected
C17_Witness ==
    /\ pc = "main"
    /\ case_index = 3
    /\ ~CaseRaises(1)
    /\ CaseRaises(2)
    /\ ~CaseRaises(3)
    /\ all_case_names_for_plotting = <<CaseName(1), CaseName(3)>>
    /\ Len(all_results_for_plotting) = 2
    /\ Len(all_results_for_plotting[1]) = 3

-----------------------------------------------------------------------------
(* C18 *)

\* the fields of a stage that calculate_probabilities computes, the allocated
\* seats apart
ComputedAfterAllocation(st) ==
    <<st.effective_seats_for_new_winners, st.premise_applicants_for_stage_type,
      st.actual_applicants_for_stage, st.winners_in_stage,
      st.conditional_win_prob_in_stage>>

\* C18: when calculate_probabilities raises on an out-of-range reduction
\* rate, nothing is restored: every stage holds the newly allocated seats in
\* allocated_seats_original, while effective seats, premise and actual
\* applicants, winners, conditional probabilities, results_per_stage_raw and
\* final_probabilities are what they were before the call.
C18_NoRecoveryOnFailure ==
    [][(pc = "ready" /\ last_op' = "calculate_probabilities" /\ raised') =>
          /\ Len(stages') = Len(stages)
          /\ \A i \in 1..Len(stages) :
                /\ stages'[i].allocated_seats_original =
                       AllocateLoop(stages, 1, 0, total_seats_for_user_events,
                                    total_weight)[i].allocated_seats_original
                /\ ComputedAfterAllocation(stages'[i]) =
                       ComputedAfterAllocation(stages[i])
          /\ results_per_stage_raw' = results_per_stage_raw
          /\ final_probabilities' = final_probabilities]_vars

\* a failed calculation has left allocated seats in the stages; the effective
\* seats are still the initial zeros and final_probabilities is still what
\* the calculation without stages returned
C18_Witness ==
    /\ pc = "ready"
    /\ last_op = "calculate_probabilities"
    /\ raised
    /\ Len(stages) = 2
    /\ stages[1].allocated_seats_original > 0
    /\ stages[2].allocated_seats_original > 0
    /\ stages[1].effective_seats_for_new_winners = 0
    /\ results_per_stage_raw = <<>>
    /\ final_probabilities = <<<<"all:lose", One>>>>

-----------------------------------------------------------------------------
(* C19 *)

\* what a fresh simulator with the same arguments and the same stage sequence
\* computes: its stages and final_probabilities
FreshCalculation ==
    LET fresh == [i \in 1..Len(stages) |->
                     LotteryStage(stages[i].name,
                                  stages[i].applicant_core_fan_ratio,
                                  stages[i].additional_applicants,
                                  stages[i].weight)]
        a == allocate_seats_to_stages(fresh, total_weight,
                 total_seats_for_user_events, duplicate_config)
    IN  CascadeLoop(a.stages, 1, core_fan_total_population, 0, One, <<>>)

\* C19: calculate_probabilities is idempotent and keeps no history: a call
\* right after a call that returned changes neither final_probabilities nor
\* any stage, and whatever was calculated before, a call that returns leaves
\* the distribution and the stage fields a fresh simulator with the same
\* stage sequence computes.
C19_IdempotentAndHistoryFree ==
    [][(/\ pc = "ready"
        /\ last_op' = "calculate_probabilities"
        /\ ~raised'
        /\ stages # <<>>) =>
          /\ LET fresh == FreshCalculation
             IN  /\ stages' = fresh.stages
                 /\ final_probabilities' = fresh.final_probabilities
          /\ Returned =>
                /\ stages' = stages
                /\ final_probabilities' = final_probabilities
                /\ results_per_stage_raw' = results_per_stage_raw]_vars

\* a stage has been added to a calculated simulator: the first stage still
\* holds the winners of the earlier calculation, which are not what the next
\* calculation gives it
C19_Witness ==
    /\ pc = "ready"
    /\ last_op = "add_stage"
    /\ ~raised
    /\ Len(stages) = 2
    /\ Len(results_per_stage_raw) = 1
    /\ Len(final_probabilities) = 2
    /\ stages[1].winners_in_stage > 0
    /\ ~RateOutOfRange(ReductionRate(duplicate_config))
    /\ FreshCalculation.stages[1].winners_in_stage # stages[1].winners_in_stage

-----------------------------------------------------------------------------
(* C20 *)

\* C20: add_stage and calculate_probabilities never change seats_per_event,
\* user_total_target_events and total_seats_for_user_events, and
\* calculate_probabilities changes neither the number of stages, nor
\* total_weight, nor the name, ratio, additional applicants and weight of
\* any stage, nor the constructor arguments: it writes the computed fields
\* of the stages, results_per_stage_raw and final_probabilities only.
C20_Frame ==
    [][/\ (pc = "ready" /\ last_op' \in {"add_stage", "calculate_probabilities"}) =>
              /\ seats_per_event' = seats_per_event
              /\ user_total_target_events' = user_total_target_events
              /\ total_seats_for_user_events' = total_seats_for_user_events
       /\ (pc = "ready" /\ last_op' = "calculate_probabilities") =>
              /\ Configs(stages') = Configs(stages)
              /\ total_weight' = total_weight
              /\ ctor_args' = ctor_args
              /\ pc' = pc]_vars

\* a calculation has written computed fields and both result attributes
\* while the three derived values are those of construction
C20_Witness ==
    /\ Returned
    /\ Len(stages) = 2
    /\ stages[1].winners_in_stage > 0
    /\ results_per_stage_raw = <<1, 2>>
    /\ Len(final_probabilities) = 3
    /\ total_weight = 3
    /\ total_seats_for_user_events =
           RMul(Rat(total_overall_attendance, num_total_events),
                FromInt(SumValues(user_target_events_details)))

-----------------------------------------------------------------------------
(* C21 *)

====
